---- MODULE Spec2Model ----
(***************************************************************************)
(* Model of adb/contrib/high.py: the per-device cache and the fleet        *)
(* connect (_PerDeviceCache, _InitCache, _ConnectFromHandles), the boot    *)
(* readiness polling (WaitForDevice, WaitUntilFullyBooted), the CPU        *)
(* governor / frequency control (SetCPUScalingGovernor, SetCPUSpeed), the  *)
(* temporary files (Mkstemp, WrappedShell) and the decoder _ParcelToList.  *)
(***************************************************************************)
EXTENDS Integers, Sequences, FiniteSets, TLC

(***************************************************************************)
(* Bounds of the model.                                                    *)
(***************************************************************************)
\* number of fleet connect calls in one behaviour
MaxCycles == 2

\* the largest timeout given to WaitUntilFullyBooted, in polling periods
MaxTimeout == 2
\* the clock stops there: later than any deadline
MaxTime == MaxTimeout + 3

\* the largest number of lines given to _ParcelToList
MaxLines == 4

\* the frames of SetCPUScalingGovernor and SetCPUSpeed the interpreter
\* allows on the stack (its recursion limit, scaled down)
MaxDepth == 4

\* the device calls one priming makes, and the polls one polling loop makes
MaxQueries == 2
MaxPolls == 2

\* the physical devices, one handle each, in the order of the handle list
Dev == {1, 2}
\* the attachment points: one more than there are devices, so that a device
\* can re-enumerate at a free one
Paths == {1, 2, 3}

(***************************************************************************)
(* Optional values: Python's None and a present value.                     *)
(***************************************************************************)
None == <<>>
Some(v) == <<v>>
IsNone(o) == o = <<>>
Val(o) == o[1]

(***************************************************************************)
(* KNOWN_CPU_SCALING_GOVERNOR_VALUES, and the alphabetical order of the    *)
(* governor names a device can report ("schedutil" is outside the known    *)
(* set).                                                                   *)
(***************************************************************************)
KNOWN_CPU_SCALING_GOVERNOR_VALUES ==
  <<"conservative", "interactive", "ondemand", "performance", "powersave",
    "userspace">>

GovernorOrder ==
  <<"conservative", "interactive", "ondemand", "performance", "powersave",
    "schedutil", "userspace">>

Range(s) == {s[i] : i \in 1..Len(s)}

\* sorted(i for i in out.split()) on governor names
SortedGovernors(names) == SelectSeq(GovernorOrder, LAMBDA g : g \in Range(names))

\* sorted(int(i) for i in ...): insertion sort of a sequence of integers
RECURSIVE SortedInts(_)
Insert(x, s) ==
  LET k == Cardinality({i \in 1..Len(s) : s[i] <= x})
  IN  SubSeq(s, 1, k) \o <<x>> \o SubSeq(s, k + 1, Len(s))
SortedInts(s) == IF s = <<>> THEN <<>> ELSE Insert(s[1], SortedInts(Tail(s)))

(***************************************************************************)
(* DeviceCache: the namedtuple of the five static facts.                   *)
(***************************************************************************)
DeviceCache(props, storage, su, frequencies, governors) ==
  [build_props |-> props,
   external_storage_path |-> storage,
   has_su |-> su,
   available_frequencies |-> frequencies,
   available_governors |-> governors]

\* the value of a HighDevice.cache that does not exist (no session)
NoCache == [absent |-> TRUE]


(***************************************************************************)
(* What a device answers to the queries of _InitCache.  An answer holds    *)
(* the result of each call: the Shell call (output, exit code), the three  *)
(* to five PullContent calls (None when the pull failed) and the Stat call *)
(* (the file mode, None when there is no such file or the call failed).    *)
(***************************************************************************)
Answer(ext_out, ext_exit, props, su_mode, gov, freq, min_freq, max_freq) ==
  [ext_out |-> ext_out, ext_exit |-> ext_exit, props |-> props,
   su_mode |-> su_mode, gov |-> gov, freq |-> freq,
   min_freq |-> min_freq, max_freq |-> max_freq]

\* a device that answers nothing (not connected, or dropped)
DeadAnswer == Answer(None, 0, None, None, None, None, None, None)

\* a device that answers every query; its frequency table is unsorted
FullAnswer(su_mode, gov) ==
  Answer(Some("/sdcard"), 0, Some("props"), su_mode, gov,
         Some(<<1000000, 300000, 652800>>), Some(300000), Some(1000000))

\* the same with one retrieval failing, or with all the frequency pulls failing
Degraded(a) ==
  { [a EXCEPT !.ext_exit = 1],
    [a EXCEPT !.props = None],
    [a EXCEPT !.su_mode = None],
    [a EXCEPT !.gov = None],
    [a EXCEPT !.freq = None],
    [a EXCEPT !.freq = None, !.min_freq = None],
    [a EXCEPT !.freq = None, !.max_freq = None] }

\* what the devices of the fleet answer: a device with or without su, a
\* device whose governor table holds a governor outside the known set, a
\* device with a retrieval failing, and a device that answers nothing
FleetAnswers ==
  LET table == Some(<<"userspace", "interactive", "performance">>)
      odd == Some(<<"schedutil", "interactive">>)
      mode == Some(33261)
  IN  {FullAnswer(mode, table), FullAnswer(None, table), FullAnswer(mode, odd)}
        \cup Degraded(FullAnswer(mode, table)) \cup {DeadAnswer}

\* a retrieval of the answer failed (the ghost of "all the calls above worked")
SomeCallFailed(a) ==
  \/ a.ext_exit # 0 \/ IsNone(a.ext_out)
  \/ IsNone(a.props)
  \/ IsNone(a.gov)
  \/ IsNone(a.freq) /\ (IsNone(a.min_freq) \/ IsNone(a.max_freq))

(***************************************************************************)
(* _InitCache, lines 122-172: the DeviceCache built from the answers, or   *)
(* the AssertionError of line 149.                                         *)
(***************************************************************************)
ExternalStoragePath(a) == IF a.ext_exit # 0 THEN None ELSE a.ext_out

BuildProps(a) == a.props

HasSu(a) == ~IsNone(a.su_mode) /\ Val(a.su_mode) # 0

AvailableGovernors(a) ==
  IF IsNone(a.gov) \/ Val(a.gov) = <<>>
    THEN Some(KNOWN_CPU_SCALING_GOVERNOR_VALUES)
    ELSE Some(SortedGovernors(Val(a.gov)))

GovernorAssertFails(a) ==
  /\ ~IsNone(a.gov)
  /\ Val(a.gov) # <<>>
  /\ ~(Range(Val(a.gov)) \subseteq Range(KNOWN_CPU_SCALING_GOVERNOR_VALUES))

AvailableFrequencies(a) ==
  IF ~IsNone(a.freq) /\ Val(a.freq) # <<>>
    THEN Some(SortedInts(Val(a.freq)))
    ELSE IF ~IsNone(a.min_freq) /\ ~IsNone(a.max_freq)
           THEN Some(<<Val(a.min_freq), Val(a.max_freq)>>)
           ELSE a.freq

BuildCache(a) ==
  DeviceCache(BuildProps(a), ExternalStoragePath(a), HasSu(a),
              AvailableFrequencies(a), AvailableGovernors(a))

\* all(i is not None for i in cache._asdict().itervalues())
AllNotNone(c) ==
  /\ ~IsNone(c.build_props)
  /\ ~IsNone(c.external_storage_path)
  /\ c.has_su \in BOOLEAN
  /\ ~IsNone(c.available_frequencies)
  /\ ~IsNone(c.available_governors)


(***************************************************************************)
(* State.                                                                  *)
(***************************************************************************)
VARIABLES
  \* _PER_DEVICE_CACHE._per_device: port path -> DeviceCache
  per_device,
  \* the attachment point of each device (its port_path)
  port_path,
  \* the session of each device: "closed" (no session), "valid" (is_valid is
  \* true) or "invalid" (a session whose is_valid is false)
  session,
  \* adbd of the device runs as root (what IsRoot() answers)
  is_root,
  \* the DeviceCache _InitCache returned for each handle of the fleet connect
  \* (HighDevice.cache)
  cache,
  \* the fleet connect in progress: its handles, its as_root argument, where
  \* it stands, where each per-handle task stands, and the list it returned
  handles, as_root, phase, pc, devices,
  \* history: the number of fleet connects started, the trim calls of the
  \* current one, the store as the last trim found it, the handles whose
  \* connect failed, the answer of IsRoot() and the calls of Root() of each
  \* task, and the port paths whose stored entry was built while a retrieval
  \* failed
  cycles, trims, pre_trim, connect_failed, was_root, root_called, degraded,
  \* history: the handles whose _InitCache has queried the device in this
  \* fleet connect
  queried

VARIABLES
  \* the clock (time.time()), in polling periods of 0.1 s
  now,
  \* WaitUntilFullyBooted: the cache of its device, its timeout argument,
  \* where it stands, its start (line 770), the start of WaitForDevice
  \* (line 752), and how it ended ("True", "False", or nothing when it raised)
  boot_cache, timeout, boot_pc, start, wait_start, boot_result,
  \* history: the device calls issued, whether Stat succeeded, the phase the
  \* operation is in and when it entered it, whether the package manager gave
  \* an answer outside the two sentinels
  issued, stat_ok, boot_phase, phase_start, pm_unexpected

boot_vars ==
  <<now, boot_cache, timeout, boot_pc, start, wait_start, boot_result,
    issued, stat_ok, boot_phase, phase_start, pm_unexpected>>

VARIABLES
  \* SetCPUScalingGovernor / SetCPUSpeed: the cache of the device, the call
  \* made by the user, the frames of the calls in progress (the innermost
  \* first), the value the last call returned, and where the call of the user
  \* stands ("call", "running", "done", or "raised" for an exception)
  cpu_cache, cpu_call, stack, ret, cpu_status,
  \* the device: the governor and the speed its control files hold
  scaling_governor, scaling_setspeed,
  \* history: the writes attempted (file, value, push or shell), the nested
  \* calls made, what the nested SetCPUSpeed returned, and the files pulled
  writes, nested, speed_result, pulls

cpu_vars ==
  <<cpu_cache, cpu_call, stack, ret, cpu_status, scaling_governor,
    scaling_setspeed, writes, nested, speed_result, pulls>>

VARIABLES
  \* WrappedShell and Mkstemp: where the call stands, the file Mkstemp is
  \* called for ("script" or "outfile"), the attempts it has made, the name
  \* it tries, the two names allocated, the exit code of the script and
  \* what WrappedShell returns
  ws_pc, target, attempt, name, script, outfile, ws_exit_code, ws_result,
  \* the device: the temporary files that exist
  files,
  \* history: the rm calls issued, the number of 'sh' calls, what the
  \* Mkstemp for each of the two files has done, and whether the last Stat
  \* reported a file
  removes, sh_calls, tries, found

ws_vars ==
  <<ws_pc, target, attempt, name, script, outfile, ws_exit_code, ws_result,
    files, removes, sh_calls, tries, found>>

VARIABLES
  \* _ParcelToList: the lines given, the number of lines the loop has taken,
  \* the list built, and where the call stands
  lines, taken, parcel_out, parcel_pc

parcel_vars == <<lines, taken, parcel_out, parcel_pc>>

VARIABLES
  \* the lock of the store: the thread that holds it, 0 when it is free
  lock,
  \* the port paths that have an entry in the store
  entries,
  \* each thread: what it runs ("prime", "trim" or "poll"), where it
  \* stands, the device calls it still has to make, whether they all
  \* worked, the keys its trim has still to look at and the port paths of
  \* the devices of the list given to its trim
  th_role, th_pc, th_left, th_ok, th_keys, th_device_keys

lock_vars ==
  <<lock, entries, th_role, th_pc, th_left, th_ok, th_keys, th_device_keys>>

fleet_vars ==
  <<per_device, port_path, session, is_root, cache, handles, as_root, phase,
    pc, devices, cycles, trims, pre_trim, connect_failed, was_root,
    root_called, degraded, queried>>

\* what the operations of one part leave alone
not_fleet == <<boot_vars, cpu_vars, ws_vars, parcel_vars, lock_vars>>
not_boot == <<fleet_vars, cpu_vars, ws_vars, parcel_vars, lock_vars>>
not_cpu == <<fleet_vars, boot_vars, ws_vars, parcel_vars, lock_vars>>
not_ws == <<fleet_vars, boot_vars, cpu_vars, parcel_vars, lock_vars>>
not_parcel == <<fleet_vars, boot_vars, cpu_vars, ws_vars, lock_vars>>

not_lock == <<fleet_vars, boot_vars, cpu_vars, ws_vars, parcel_vars>>

vars ==
  <<fleet_vars, boot_vars, cpu_vars, ws_vars, parcel_vars, lock_vars>>

(***************************************************************************)
(* _PerDeviceCache, lines 57-84.  The three methods hold the one lock for  *)
(* their whole body, so each is one step.                                  *)
(***************************************************************************)
\* (mutant) a lookup that finds nothing
getNothing(store, path) == None

\* get(device): self._per_device.get(device.port_path)
get(store, path) == IF path \in DOMAIN store THEN Some(store[path]) ELSE None

\* set(device, cache): self._per_device[device.port_path] = cache
set(store, path, c) ==
  [p \in DOMAIN store \cup {path} |-> IF p = path THEN c ELSE store[p]]

\* {d.port_path: d for d in devices}: the last device of a port path wins
device_keys(devs) ==
  [p \in {devs[i].port_path : i \in 1..Len(devs)} |->
     devs[CHOOSE i \in 1..Len(devs) :
            /\ devs[i].port_path = p
            /\ \A j \in (i + 1)..Len(devs) : devs[j].port_path # p]]

\* (mutant) trim that keeps the entry of a device that is not valid
StaleOnlyIfMissing(keys, p) == p \notin DOMAIN keys

\* the entries trim deletes: not dev or not dev.is_valid
Stale(keys, p) == p \notin DOMAIN keys \/ ~keys[p].is_valid

\* trim(devices)
trim(store, devs) ==
  LET keys == device_keys(devs)
  IN  [p \in {q \in DOMAIN store : ~Stale(keys, q)} |-> store[p]]

(***************************************************************************)
(* The fleet.                                                              *)
(***************************************************************************)
EmptyStore == [p \in {} |-> NoCache]

\* the handles in the order of the list given to pmap
RECURSIVE HandleList(_)
HandleList(S) ==
  IF S = {} THEN <<>>
  ELSE LET d == CHOOSE x \in S : \A y \in S : x <= y
       IN  <<d>> \o HandleList(S \ {d})

\* the attachment points no device is at
FreePaths == Paths \ {port_path[d] : d \in Dev}

InitFleet ==
  /\ per_device = EmptyStore
  /\ port_path = [d \in Dev |-> d]
  /\ session = [d \in Dev |-> "closed"]
  /\ is_root \in [Dev -> BOOLEAN]
  /\ cache = [d \in Dev |-> NoCache]
  /\ handles = {}
  /\ as_root = FALSE
  /\ phase = "idle"
  /\ pc = [d \in Dev |-> "idle"]
  /\ devices = <<>>
  /\ cycles = 0
  /\ trims = 0
  /\ pre_trim = EmptyStore
  /\ connect_failed = {}
  /\ was_root = [d \in Dev |-> FALSE]
  /\ root_called = [d \in Dev |-> FALSE]
  /\ degraded = {}
  /\ queried = {}


\* GetLocalDevices / GetRemoteDevices, lines 273-335: _ConnectFromHandles is
\* entered with the unopened handles hs
GetDevices(hs, root) ==
  /\ phase \in {"idle", "returned"}
  /\ cycles < MaxCycles
  /\ \A d \in hs : session[d] = "closed"
  /\ handles' = hs
  /\ as_root' = root
  /\ phase' = "running"
  /\ pc' = [d \in Dev |-> IF d \in hs THEN "connect" ELSE "idle"]
  /\ devices' = <<>>
  /\ cycles' = cycles + 1
  /\ trims' = 0
  /\ pre_trim' = EmptyStore
  /\ connect_failed' = {}
  /\ was_root' = [d \in Dev |-> FALSE]
  /\ root_called' = [d \in Dev |-> FALSE]
  /\ cache' = [d \in Dev |-> NoCache]
  /\ queried' = {}
  /\ UNCHANGED <<per_device, port_path, session, is_root, degraded>>
  /\ UNCHANGED not_fleet

\* HighDevice._Connect, lines 902-908, up to the lookup of _InitCache (line
\* 118): the constructor gives a session, valid or not, and the store is read
Connect(d) ==
  /\ pc[d] = "connect"
  /\ \E ok \in BOOLEAN :
       /\ session' = [session EXCEPT ![d] = IF ok THEN "valid" ELSE "invalid"]
       /\ connect_failed' = IF ok THEN connect_failed ELSE connect_failed \cup {d}
  /\ LET hit == get(per_device, port_path[d])
     IN  IF ~IsNone(hit)
           THEN /\ cache' = [cache EXCEPT ![d] = Val(hit)]
                /\ pc' = [pc EXCEPT ![d] = "elevate"]
           ELSE /\ cache' = cache
                /\ pc' = [pc EXCEPT ![d] = "prime"]
  /\ UNCHANGED <<per_device, port_path, is_root, handles, as_root, phase,
                 devices, cycles, trims, pre_trim, was_root, root_called,
                 degraded>>
  /\ UNCHANGED queried
  /\ UNCHANGED not_fleet

\* what the device of a session answers: nothing once the session is invalid
AnswersOf(d) == IF session[d] = "valid" THEN FleetAnswers ELSE {DeadAnswer}

\* _InitCache, lines 119-174, on a miss: the queries, then set() when no
\* field is None
Prime(d) ==
  /\ pc[d] = "prime"
  /\ queried' = queried \cup {d}
  /\ \E a \in AnswersOf(d) :
       IF GovernorAssertFails(a)
         THEN /\ pc' = [pc EXCEPT ![d] = "raised"]
              /\ UNCHANGED <<cache, per_device, degraded>>
         ELSE LET c == BuildCache(a)
                  p == port_path[d]
              IN  /\ pc' = [pc EXCEPT ![d] = "elevate"]
                  /\ cache' = [cache EXCEPT ![d] = c]
                  /\ IF AllNotNone(c)
                       THEN /\ per_device' = set(per_device, p, c)
                            /\ degraded' = IF SomeCallFailed(a)
                                             THEN degraded \cup {p}
                                             ELSE degraded \ {p}
                       ELSE UNCHANGED <<per_device, degraded>>
  /\ UNCHANGED <<port_path, session, is_root, handles, as_root, phase,
                 devices, cycles, trims, pre_trim, connect_failed, was_root,
                 root_called>>
  /\ UNCHANGED not_fleet

\* device.IsRoot()
IsRoot(d) == is_root[d]

\* (mutant) elevation that does not ask whether the device is root already
WantsRootUnchecked(root, c, already) == root /\ c.has_su

\* the condition of line 263
WantsRoot(root, c, already) == root /\ c.has_su /\ ~already

\* device.Root(): adbd restarts as root and the device may re-enumerate at
\* another attachment point, or the call fails and the session may be lost
Root(d) ==
  \/ /\ session[d] = "valid"
     /\ is_root' = [is_root EXCEPT ![d] = TRUE]
     /\ \E p \in {port_path[d]} \cup FreePaths :
          port_path' = [port_path EXCEPT ![d] = p]
     /\ UNCHANGED session
  \/ /\ \E s \in {session[d], "invalid"} :
          session' = [session EXCEPT ![d] = s]
     /\ UNCHANGED <<is_root, port_path>>

\* (mutant) fn that gives no result for a device that is not valid
FnReturnValidOnly(valid) == IF valid THEN "done" ELSE "raised"

\* return device (line 266): fn returns the device whatever its validity
FnReturn(valid) == "done"

\* _ConnectFromHandles.fn, lines 263-266
Elevate(d) ==
  /\ pc[d] = "elevate"
  /\ was_root' = [was_root EXCEPT ![d] = IsRoot(d)]
  /\ IF WantsRoot(as_root, cache[d], IsRoot(d))
       THEN /\ Root(d)
            /\ root_called' = [root_called EXCEPT ![d] = TRUE]
       ELSE UNCHANGED <<is_root, port_path, session, root_called>>
  /\ pc' = [pc EXCEPT ![d] = FnReturn(session'[d] = "valid")]
  /\ UNCHANGED <<per_device, cache, handles, as_root, phase, devices, cycles,
                 trims, pre_trim, connect_failed, degraded>>
  /\ UNCHANGED queried
  /\ UNCHANGED not_fleet

\* (mutant) trim that does not wait for the tasks
PmapNotJoined == TRUE

\* parallel.pmap(fn, handles) has returned: every task has ended
PmapDone == \A d \in handles : pc[d] \in {"done", "raised"}

\* the list pmap returns: the result of every task that returned one, in the
\* order of the handles
PmapResult(hs) == SelectSeq(HandleList(hs), LAMBDA d : pc[d] = "done")

\* what trim reads of the devices of the list
DeviceRecords(ds) ==
  [i \in 1..Len(ds) |->
     [port_path |-> port_path[ds[i]], is_valid |-> session[ds[i]] = "valid"]]

\* _ConnectFromHandles, lines 268-270
ConnectReturn ==
  /\ phase = "running"
  /\ PmapDone
  /\ devices' = PmapResult(handles)
  /\ pre_trim' = per_device
  /\ per_device' = trim(per_device, DeviceRecords(devices'))
  /\ trims' = trims + 1
  /\ degraded' = degraded \cap DOMAIN per_device'
  /\ phase' = "returned"
  /\ UNCHANGED <<port_path, session, is_root, cache, handles, as_root, pc,
                 cycles, connect_failed, was_root, root_called>>
  /\ UNCHANGED queried
  /\ UNCHANGED not_fleet

\* the caller has the list: whatever happens next happens after the return,
\* when the locals of the call and of its tasks are gone
Forget ==
  /\ phase' = IF phase = "returned" THEN "idle" ELSE phase
  /\ handles' = IF phase = "returned" THEN {} ELSE handles
  /\ as_root' = IF phase = "returned" THEN FALSE ELSE as_root
  /\ devices' = IF phase = "returned" THEN <<>> ELSE devices
  /\ trims' = IF phase = "returned" THEN 0 ELSE trims
  /\ pre_trim' = IF phase = "returned" THEN EmptyStore ELSE pre_trim
  /\ connect_failed' = IF phase = "returned" THEN {} ELSE connect_failed
  /\ was_root' = IF phase = "returned" THEN [d \in Dev |-> FALSE] ELSE was_root
  /\ root_called' =
       IF phase = "returned" THEN [d \in Dev |-> FALSE] ELSE root_called
  /\ cache' = IF phase = "returned" THEN [d \in Dev |-> NoCache] ELSE cache
  /\ queried' = IF phase = "returned" THEN {} ELSE queried

TaskForgotten(d) == IF phase = "returned" \/ pc[d] = "idle" THEN "idle" ELSE pc[d]

\* HighDevice.Close, lines 399-400
Close(d) ==
  /\ phase \in {"idle", "returned"}
  /\ session[d] # "closed"
  /\ session' = [session EXCEPT ![d] = "closed"]
  /\ pc' = [e \in Dev |-> TaskForgotten(e)]
  /\ Forget
  /\ UNCHANGED <<per_device, port_path, is_root, cycles, degraded>>
  /\ UNCHANGED not_fleet

\* the connection of a session is lost while the fleet connect runs:
\* is_valid turns false
Drop(d) ==
  /\ phase = "running"
  /\ d \in handles
  /\ session[d] = "valid"
  /\ session' = [session EXCEPT ![d] = "invalid"]
  /\ UNCHANGED <<per_device, port_path, is_root, cache, handles, as_root,
                 phase, pc, devices, cycles, trims, pre_trim, connect_failed,
                 was_root, root_called, degraded>>
  /\ UNCHANGED queried
  /\ UNCHANGED not_fleet

NextFleet ==
  \/ \E hs \in SUBSET Dev, root \in BOOLEAN : GetDevices(hs, root)
  \/ \E d \in Dev : Connect(d)
  \/ \E d \in Dev : Prime(d)
  \/ \E d \in Dev : Elevate(d)
  \/ ConnectReturn
  \/ \E d \in Dev : Close(d)
  \/ \E d \in Dev : Drop(d)

(***************************************************************************)
(* Boot readiness: WaitForDevice (lines 741-760) and WaitUntilFullyBooted  *)
(* (lines 762-807).                                                        *)
(***************************************************************************)
\* the caches of the devices waited for: with and without the external
\* storage path
BootCaches ==
  LET a == FullAnswer(Some(33261), Some(<<"interactive", "userspace">>))
  IN  {BuildCache(a), BuildCache([a EXCEPT !.ext_exit = 1])}

\* not x, for a string that may be None
FalsyStr(o) == IsNone(o) \/ Val(o) = ""

\* the operation has not been called
BootIdle ==
  /\ now = 0
  /\ boot_cache = NoCache
  /\ timeout = 0
  /\ boot_pc = "idle"
  /\ start = 0
  /\ wait_start = 0
  /\ boot_result = "none"
  /\ issued = {}
  /\ stat_ok = FALSE
  /\ boot_phase = "A"
  /\ phase_start = 0
  /\ pm_unexpected = FALSE

InitBoot ==
  /\ now = 0
  /\ boot_cache \in BootCaches
  /\ timeout \in 0..MaxTimeout
  /\ boot_pc = "call"
  /\ start = 0
  /\ wait_start = 0
  /\ boot_result = "none"
  /\ issued = {}
  /\ stat_ok = FALSE
  /\ boot_phase = "A"
  /\ phase_start = 0
  /\ pm_unexpected = FALSE

Min(a, b) == IF a <= b THEN a ELSE b

\* time passes while the operation runs (a device call takes time); between
\* lines 770 and 752 at most one period passes
Tick ==
  /\ boot_pc \notin {"idle", "call", "done", "raised"}
  /\ boot_pc = "A_start" => now = start
  /\ now < MaxTime
  /\ now' = now + 1
  /\ UNCHANGED <<boot_cache, timeout, boot_pc, start, wait_start, boot_result,
                 issued, stat_ok, boot_phase, phase_start, pm_unexpected>>
  /\ UNCHANGED not_boot

\* time.sleep(0.1)
Sleep(next) ==
  /\ now' = Min(now + 1, MaxTime)
  /\ boot_pc' = next

\* (mutant) a caller that goes on when WaitForDevice failed
AfterWaitForDeviceIgnored(ok) == "B_check"

\* line 771: if not self.WaitForDevice(timeout): return False
AfterWaitForDevice(ok) == IF ok THEN "B_check" ELSE "done"

\* WaitForDevice returns ok to WaitUntilFullyBooted
WaitForDeviceReturns(ok) ==
  /\ boot_pc' = AfterWaitForDevice(ok)
  /\ boot_result' = IF boot_pc' = "done" THEN "False" ELSE boot_result
  /\ boot_phase' = IF boot_pc' = "done" THEN "A" ELSE "B"
  /\ phase_start' = IF boot_pc' = "done" THEN phase_start ELSE now

\* lines 770-751: start = time.time(), then WaitForDevice fails at once
\* without an external storage path
BootCall ==
  /\ boot_pc = "call"
  /\ start' = now
  /\ IF FalsyStr(boot_cache.external_storage_path)
       THEN WaitForDeviceReturns(FALSE)
       ELSE /\ boot_pc' = "A_start"
            /\ UNCHANGED <<boot_result, boot_phase, phase_start>>
  /\ UNCHANGED <<now, boot_cache, timeout, wait_start, issued, stat_ok,
                 pm_unexpected>>
  /\ UNCHANGED not_boot

\* line 752: start = time.time() of WaitForDevice
WaitStart ==
  /\ boot_pc = "A_start"
  /\ wait_start' = now
  /\ boot_pc' = "A_check"
  /\ UNCHANGED <<now, boot_cache, timeout, start, boot_result, issued,
                 stat_ok, boot_phase, phase_start, pm_unexpected>>
  /\ UNCHANGED not_boot

\* (mutant) a check that never finds the time up
ExpiredNever(since) == FALSE

\* lines 754, 777 and 791: (time.time() - start) > timeout
Expired(since) == now - since > timeout

\* lines 754-755 and 759-760: the deadline of WaitForDevice
WaitCheck ==
  /\ boot_pc = "A_check"
  /\ IF Expired(wait_start)
       THEN WaitForDeviceReturns(FALSE)
       ELSE /\ boot_pc' = "A_stat"
            /\ UNCHANGED <<boot_result, boot_phase, phase_start>>
  /\ UNCHANGED <<now, boot_cache, timeout, start, wait_start, issued, stat_ok,
                 pm_unexpected>>
  /\ UNCHANGED not_boot

\* lines 756-757: Stat of the external storage path
WaitStat ==
  /\ boot_pc = "A_stat"
  /\ issued' = issued \cup {"stat"}
  /\ \E mode \in {None, Some(16877)} :
       IF ~IsNone(mode)
         THEN /\ stat_ok' = TRUE
              /\ WaitForDeviceReturns(TRUE)
         ELSE /\ boot_pc' = "A_sleep"
              /\ UNCHANGED <<stat_ok, boot_result, boot_phase, phase_start>>
  /\ UNCHANGED <<now, boot_cache, timeout, start, wait_start, pm_unexpected>>
  /\ UNCHANGED not_boot

\* line 758
WaitSleep ==
  /\ boot_pc = "A_sleep"
  /\ Sleep("A_check")
  /\ UNCHANGED <<boot_cache, timeout, start, wait_start, boot_result, issued,
                 stat_ok, boot_phase, phase_start, pm_unexpected>>
  /\ UNCHANGED not_boot

\* (mutant) a deadline that starts again with each phase
PollStartOfPhase == phase_start

\* the start the checks of lines 777 and 791 measure from
PollStart == start

\* lines 777-782: the deadline of the boot animation phase; the warning it
\* logs asks the property once more
AnimCheck ==
  /\ boot_pc = "B_check"
  /\ IF Expired(PollStart)
       THEN /\ issued' = issued \cup {"getprop"}
            /\ boot_pc' = "done"
            /\ boot_result' = "False"
       ELSE /\ boot_pc' = "B_getprop"
            /\ UNCHANGED <<issued, boot_result>>
  /\ UNCHANGED <<now, boot_cache, timeout, start, wait_start, stat_ok,
                 boot_phase, phase_start, pm_unexpected>>
  /\ UNCHANGED not_boot

\* out.rstrip() of an output of getprop
Rstrip(out) ==
  CASE out = "stopped\n" -> "stopped"
    [] out = "running\n" -> "running"
    [] OTHER -> out

\* GetProp, lines 883-887: None when the exit code is not 0, else the output
\* without its trailing blanks
GetProp(out, exit_code) == IF exit_code # 0 THEN "None" ELSE Rstrip(out)

\* lines 785-786
AnimGetProp ==
  /\ boot_pc = "B_getprop"
  /\ issued' = issued \cup {"getprop"}
  /\ \E out \in {"stopped\n", "running\n", ""}, exit_code \in {0, 1} :
       IF GetProp(out, exit_code) = "stopped"
         THEN /\ boot_pc' = "C_check"
              /\ boot_phase' = "C"
              /\ phase_start' = now
         ELSE /\ boot_pc' = "B_sleep"
              /\ UNCHANGED <<boot_phase, phase_start>>
  /\ UNCHANGED <<now, boot_cache, timeout, start, wait_start, boot_result,
                 stat_ok, pm_unexpected>>
  /\ UNCHANGED not_boot

\* line 787
AnimSleep ==
  /\ boot_pc = "B_sleep"
  /\ Sleep("B_check")
  /\ UNCHANGED <<boot_cache, timeout, start, wait_start, boot_result, issued,
                 stat_ok, boot_phase, phase_start, pm_unexpected>>
  /\ UNCHANGED not_boot

\* lines 791-796: the deadline of the package manager phase
PmCheck ==
  /\ boot_pc = "C_check"
  /\ IF Expired(PollStart)
       THEN /\ boot_pc' = "done"
            /\ boot_result' = "False"
       ELSE /\ boot_pc' = "C_pm"
            /\ UNCHANGED boot_result
  /\ UNCHANGED <<now, boot_cache, timeout, start, wait_start, issued, stat_ok,
                 boot_phase, phase_start, pm_unexpected>>
  /\ UNCHANGED not_boot

\* what 'pm path' can print: the two sentinels, something else, or nothing
\* at all when the shell call failed
PmUp == "Error: no package specified\n"
PmDown == "Error: Could not access the Package Manager.  Is the system running?\n"
PmOutputs == {PmUp, PmDown, "other", "None"}

\* lines 797-804: up, still booting, or the assert
PmAnswer(out) ==
  IF out = PmUp THEN "up" ELSE IF out = PmDown THEN "down" ELSE "assert"

PmPath ==
  /\ boot_pc = "C_pm"
  /\ issued' = issued \cup {"pm"}
  /\ \E out \in PmOutputs :
       /\ pm_unexpected' = (out \notin {PmUp, PmDown})
       /\ boot_pc' = CASE PmAnswer(out) = "up" -> "done"
                       [] PmAnswer(out) = "down" -> "C_sleep"
                       [] OTHER -> "raised"
       /\ boot_result' = IF PmAnswer(out) = "up" THEN "True" ELSE boot_result
  /\ UNCHANGED <<now, boot_cache, timeout, start, wait_start, stat_ok,
                 boot_phase, phase_start>>
  /\ UNCHANGED not_boot

\* line 805
PmSleep ==
  /\ boot_pc = "C_sleep"
  /\ Sleep("C_check")
  /\ UNCHANGED <<boot_cache, timeout, start, wait_start, boot_result, issued,
                 stat_ok, boot_phase, phase_start, pm_unexpected>>
  /\ UNCHANGED not_boot

NextBoot ==
  \/ Tick
  \/ BootCall
  \/ WaitStart
  \/ WaitCheck
  \/ WaitStat
  \/ WaitSleep
  \/ AnimCheck
  \/ AnimGetProp
  \/ AnimSleep
  \/ PmCheck
  \/ PmPath
  \/ PmSleep

\* the steps of the thread that runs the operation: every statement but the
\* passing of time between two of them
BootStep ==
  \/ BootCall
  \/ WaitStart
  \/ WaitCheck
  \/ WaitStat
  \/ WaitSleep
  \/ AnimCheck
  \/ AnimGetProp
  \/ AnimSleep
  \/ PmCheck
  \/ PmPath
  \/ PmSleep

(***************************************************************************)
(* CPU control: SetCPUScalingGovernor (lines 478-536) and SetCPUSpeed      *)
(* (lines 538-558).                                                        *)
(***************************************************************************)
\* not x, for a list that may be None
FalsyList(o) == IsNone(o) \/ Val(o) = <<>>

\* the caches of the devices controlled: governor tables with and without
\* powersave, userspace, ondemand and interactive, or none (the default
\* list); a frequency table, the minimum and maximum only, or nothing
CpuAnswers ==
  LET govs == {None,
               Some(<<"userspace", "interactive", "performance">>),
               Some(<<"powersave", "ondemand", "userspace">>),
               Some(<<"performance", "conservative">>)}
      full == {FullAnswer(None, g) : g \in govs}
  IN  full \cup {[a EXCEPT !.freq = None] : a \in full}
           \cup {[a EXCEPT !.freq = None, !.min_freq = None] : a \in full}

CpuCaches == {BuildCache(a) : a \in CpuAnswers}

\* the arguments the user gives
GovernorArgs == Range(KNOWN_CPU_SCALING_GOVERNOR_VALUES)
SpeedArgs == {5000, 300000, 500000, 1000000}

\* what the governor control file can hold when the call is made
DeviceGovernors == {"interactive", "userspace", "schedutil"}

\* the content of a control file: the value and a newline
Content(value) == [text |-> value, eol |-> "\n"]

\* x.strip()
Strip(content) == content.text

\* (x or '').strip() == value, for a content read that may be None; the
\* values compared are never the empty string
StripEquals(content, value) ==
  ~IsNone(content) /\ Strip(Val(content)) = value

GovFile == "scaling_governor"
SpeedFile == "scaling_setspeed"

\* the operation has not been called
CpuIdle ==
  /\ cpu_cache = NoCache
  /\ cpu_call = [fn |-> "none"]
  /\ stack = <<>>
  /\ ret = FALSE
  /\ cpu_status = "idle"
  /\ scaling_governor = "interactive"
  /\ scaling_setspeed = 0
  /\ writes = <<>>
  /\ nested = <<>>
  /\ speed_result = "none"
  /\ pulls = <<>>

InitCpu ==
  /\ cpu_cache \in CpuCaches
  /\ cpu_call \in {[fn |-> "SetCPUScalingGovernor", arg |-> g] : g \in GovernorArgs}
                    \cup {[fn |-> "SetCPUSpeed", arg |-> f] : f \in SpeedArgs}
  /\ stack = <<>>
  /\ ret = FALSE
  /\ cpu_status = "call"
  /\ scaling_governor \in DeviceGovernors
  /\ scaling_setspeed = 0
  /\ writes = <<>>
  /\ nested = <<>>
  /\ speed_result = "none"
  /\ pulls = <<>>

\* a frame of SetCPUScalingGovernor and a frame of SetCPUSpeed
GovFrame(governor) ==
  [fn |-> "SetCPUScalingGovernor", at |-> "entry", governor |-> governor,
   prev |-> None]
SpeedFrame(speed) ==
  [fn |-> "SetCPUSpeed", at |-> "entry", speed |-> speed, success |-> FALSE]

Top == stack[1]
Running(fn, at) ==
  cpu_status = "running" /\ stack # <<>> /\ Top.fn = fn /\ Top.at = at

\* the frame on top moves to another line
Goto(at) == stack' = <<[Top EXCEPT !.at = at]>> \o Tail(stack)

\* the frame on top returns v to its caller, or to the user
Return(v) ==
  /\ stack' = Tail(stack)
  /\ ret' = v
  /\ cpu_status' = IF Len(stack) = 1 THEN "done" ELSE cpu_status
  /\ speed_result' =
       IF Top.fn = "SetCPUSpeed" /\ Len(stack) > 1
         THEN (IF v THEN "True" ELSE "False")
         ELSE speed_result

\* the frame on top calls f
Call(at, f) ==
  /\ Len(stack) < MaxDepth
  /\ stack' = <<f, [Top EXCEPT !.at = at]>> \o Tail(stack)
  /\ nested' = Append(nested, [fn |-> f.fn,
                               arg |-> IF f.fn = "SetCPUSpeed"
                                         THEN f.speed ELSE f.governor])

\* an exception leaves every frame
Raise ==
  /\ cpu_status' = "raised"
  /\ stack' = <<>>

\* the user calls the operation
CpuCall ==
  /\ cpu_status = "call"
  /\ cpu_status' = "running"
  /\ stack' = IF cpu_call.fn = "SetCPUSpeed"
                THEN <<SpeedFrame(cpu_call.arg)>>
                ELSE <<GovFrame(cpu_call.arg)>>
  /\ UNCHANGED <<cpu_cache, cpu_call, ret, scaling_governor, scaling_setspeed,
                 writes, nested, speed_result>>
  /\ UNCHANGED pulls
  /\ UNCHANGED not_cpu

\* (mutant) no stand-in for an unsupported governor
SubstituteNothing(governor) == governor

\* lines 490-493: ondemand and interactive stand in for each other
Substitute(governor) ==
  IF governor = "ondemand" THEN "interactive"
  ELSE IF governor = "interactive" THEN "ondemand"
  ELSE governor

\* (mutant) an unsupported userspace handed to SetCPUSpeed as well
DelegatesUserspace(governor) == governor \in {"powersave", "userspace"}

\* line 488: if governor == 'powersave'
Delegates(governor) == governor = "powersave"

\* lines 484-499: the governor asked for, the one written instead, the
\* delegation to SetCPUSpeed, or the refusal
GovEntry ==
  /\ Running("SetCPUScalingGovernor", "entry")
  /\ LET governor == Top.governor
         governors == cpu_cache.available_governors
         frequencies == cpu_cache.available_frequencies
     IN  IF governor \notin Range(KNOWN_CPU_SCALING_GOVERNOR_VALUES)
           THEN Raise /\ UNCHANGED <<ret, nested, speed_result>>
         ELSE IF FalsyList(governors)
           THEN Return(FALSE) /\ UNCHANGED nested
         ELSE IF governor \in Range(Val(governors))
           THEN Goto("read") /\ UNCHANGED <<ret, cpu_status, nested, speed_result>>
         ELSE IF Delegates(governor)
           THEN IF FalsyList(frequencies)
                  THEN Raise /\ UNCHANGED <<ret, nested, speed_result>>
                  ELSE /\ Call("tail", SpeedFrame(Val(frequencies)[1]))
                       /\ UNCHANGED <<ret, cpu_status, speed_result>>
         ELSE IF governor \in {"ondemand", "interactive"}
           THEN /\ stack' = <<[Top EXCEPT !.at = "read",
                                          !.governor = Substitute(governor)]>>
                               \o Tail(stack)
                /\ UNCHANGED <<ret, cpu_status, nested, speed_result>>
         ELSE Return(FALSE) /\ UNCHANGED nested
  /\ UNCHANGED <<cpu_cache, cpu_call, scaling_governor, scaling_setspeed,
                 writes>>
  /\ UNCHANGED pulls
  /\ UNCHANGED not_cpu

\* line 489: return self.SetCPUSpeed(...)
GovTail ==
  /\ Running("SetCPUScalingGovernor", "tail")
  /\ Return(ret)
  /\ UNCHANGED <<cpu_cache, cpu_call, scaling_governor, scaling_setspeed,
                 writes, nested>>
  /\ UNCHANGED pulls
  /\ UNCHANGED not_cpu

\* PullContent of a control file: its content, or None
Pulled(value) == {None, Some(Content(value))}

\* the record of a PullContent: the file and what the call returned
Pull(file, content) == [file |-> file, got |-> content]

\* lines 506-508: prev = prev.strip(), for a content read that may be None
Stripped(content) ==
  IF IsNone(content) THEN None ELSE Some(Strip(Val(content)))

\* (mutant) a call that writes whatever the control file holds
AlreadySetIgnored(content, governor) == FALSE

\* lines 506-510: the governor read is the target
AlreadySet(content, governor) == StripEquals(content, governor)

\* lines 503-514: the current governor; nothing to do when it is the target
GovRead ==
  /\ Running("SetCPUScalingGovernor", "read")
  /\ \E content \in Pulled(scaling_governor) :
       /\ pulls' = Append(pulls, Pull(GovFile, content))
       /\ IF AlreadySet(content, Top.governor)
            THEN Return(TRUE)
            ELSE /\ stack' = <<[Top EXCEPT !.at = "push",
                                           !.prev = Stripped(content)]>>
                               \o Tail(stack)
                 /\ UNCHANGED <<ret, cpu_status, speed_result>>
  /\ UNCHANGED <<cpu_cache, cpu_call, scaling_governor, scaling_setspeed,
                 writes, nested>>
  /\ UNCHANGED not_cpu

\* a write to a control file: it fails, it is taken, or it is reported done
\* and the kernel keeps the old value
WriteOutcomes == {"failed", "taken", "kept"}
Written(old, value, outcome) == IF outcome = "taken" THEN value ELSE old

\* the record of a write: the file, the value, PushContent or Shell, and
\* whether the call reported it done (True, exit code 0)
Write(file, value, by, outcome) ==
  [file |-> file, value |-> value, by |-> by, ok |-> outcome # "failed"]

\* line 518: PushContent(governor + '\n', path)
GovPush ==
  /\ Running("SetCPUScalingGovernor", "push")
  /\ \E outcome \in WriteOutcomes :
       /\ writes' = Append(writes, Write(GovFile, Top.governor, "push", outcome))
       /\ scaling_governor' = Written(scaling_governor, Top.governor, outcome)
       /\ Goto(IF outcome = "failed" THEN "shell" ELSE "readback")
  /\ UNCHANGED <<cpu_cache, cpu_call, ret, cpu_status, scaling_setspeed,
                 nested, speed_result>>
  /\ UNCHANGED pulls
  /\ UNCHANGED not_cpu

\* lines 523-528: the same write by the shell
GovShell ==
  /\ Running("SetCPUScalingGovernor", "shell")
  /\ \E outcome \in WriteOutcomes :
       /\ writes' = Append(writes, Write(GovFile, Top.governor, "shell", outcome))
       /\ scaling_governor' = Written(scaling_governor, Top.governor, outcome)
       /\ IF outcome = "failed"
            THEN Return(FALSE)
            ELSE Goto("readback") /\ UNCHANGED <<ret, cpu_status, speed_result>>
  /\ UNCHANGED <<cpu_cache, cpu_call, scaling_setspeed, nested>>
  /\ UNCHANGED pulls
  /\ UNCHANGED not_cpu

\* (mutant) a write that is trusted without the readback
ConfirmedUnread(newval, governor) == TRUE

\* line 531: (newval or '').strip() == governor
Confirmed(newval, governor) == StripEquals(newval, governor)

\* lines 530-536: the value read back must be the target
GovReadback ==
  /\ Running("SetCPUScalingGovernor", "readback")
  /\ \E newval \in Pulled(scaling_governor) :
       /\ pulls' = Append(pulls, Pull(GovFile, newval))
       /\ Return(Confirmed(newval, Top.governor))
  /\ UNCHANGED <<cpu_cache, cpu_call, scaling_governor, scaling_setspeed,
                 writes, nested>>
  /\ UNCHANGED not_cpu

\* lines 544-550: the checks of the speed, then the switch to userspace
SpeedEntry ==
  /\ Running("SetCPUSpeed", "entry")
  /\ LET speed == Top.speed
         frequencies == cpu_cache.available_frequencies
     IN  IF ~(10000 <= speed /\ speed <= 10000000)
           THEN Raise /\ UNCHANGED <<ret, nested, speed_result>>
         ELSE IF FalsyList(frequencies)
           THEN Return(FALSE) /\ UNCHANGED nested
         ELSE IF speed \notin Range(Val(frequencies))
           THEN Raise /\ UNCHANGED <<ret, nested, speed_result>>
         ELSE /\ Call("push", GovFrame("userspace"))
              /\ UNCHANGED <<ret, cpu_status, speed_result>>
  /\ UNCHANGED <<cpu_cache, cpu_call, scaling_governor, scaling_setspeed,
                 writes>>
  /\ UNCHANGED pulls
  /\ UNCHANGED not_cpu

\* lines 550-554: success = ..., then PushContent('%d\n' % speed, ...)
SpeedPush ==
  /\ Running("SetCPUSpeed", "push")
  /\ \E outcome \in WriteOutcomes :
       /\ writes' = Append(writes, Write(SpeedFile, Top.speed, "push", outcome))
       /\ scaling_setspeed' = Written(scaling_setspeed, Top.speed, outcome)
       /\ IF outcome = "failed"
            THEN Return(FALSE)
            ELSE /\ stack' = <<[Top EXCEPT !.at = "readback", !.success = ret]>>
                               \o Tail(stack)
                 /\ UNCHANGED <<ret, cpu_status, speed_result>>
  /\ UNCHANGED <<cpu_cache, cpu_call, scaling_governor, nested>>
  /\ UNCHANGED pulls
  /\ UNCHANGED not_cpu

\* (mutant) a result that forgets the switch of the governor
SpeedResultOfWrite(success, val, speed) == StripEquals(val, speed)

\* line 558: success and (val or '').strip() == str(speed)
SpeedResult(success, val, speed) == success /\ StripEquals(val, speed)

\* lines 556-558
SpeedReadback ==
  /\ Running("SetCPUSpeed", "readback")
  /\ \E val \in Pulled(scaling_setspeed) :
       /\ pulls' = Append(pulls, Pull(SpeedFile, val))
       /\ Return(SpeedResult(Top.success, val, Top.speed))
  /\ UNCHANGED <<cpu_cache, cpu_call, scaling_governor, scaling_setspeed,
                 writes, nested>>
  /\ UNCHANGED not_cpu

NextCpu ==
  \/ CpuCall
  \/ GovEntry
  \/ GovTail
  \/ GovRead
  \/ GovPush
  \/ GovShell
  \/ GovReadback
  \/ SpeedEntry
  \/ SpeedPush
  \/ SpeedReadback

(***************************************************************************)
(* Temporary files: Mkstemp (lines 837-854) and WrappedShell (lines        *)
(* 856-881).                                                               *)
(***************************************************************************)
\* for _ in xrange(5)
MkstempAttempts == 5

\* the names random.choice can give, with each suffix
ScriptNames == {"a.sh", "b.sh"}
OutNames == {"a.txt", "b.txt"}
NamesFor(t) == IF t = "script" THEN ScriptNames ELSE OutNames

\* what WrappedShell returns: False, or the tuple (out, exit_code)
NoResult == [kind |-> "none"]
ReturnedFalse == [kind |-> "False"]
ReturnedTuple(out, code) == [kind |-> "tuple", out |-> out, code |-> code]

\* no push made
NoPush == [name |-> "", ok |-> FALSE]

\* the history of the two Mkstemp calls before either is made: the names
\* looked up, the attempts that found a file or failed to write, and the
\* last push
NoTries ==
  [t \in {"script", "outfile"} |-> [stats |-> 0, bad |-> 0, push |-> NoPush]]

\* the operation has not been called
WsIdle ==
  /\ ws_pc = "idle"
  /\ target = "script"
  /\ attempt = 0
  /\ name = None
  /\ script = None
  /\ outfile = None
  /\ ws_exit_code = None
  /\ ws_result = NoResult
  /\ files = {}
  /\ removes = <<>>
  /\ sh_calls = 0
  /\ tries = NoTries
  /\ found = FALSE

\* WrappedShell is called on a device with any temporary files left over
InitWs ==
  /\ ws_pc = "call"
  /\ target = "script"
  /\ attempt = 0
  /\ name = None
  /\ script = None
  /\ outfile = None
  /\ ws_exit_code = None
  /\ ws_result = NoResult
  /\ files \in SUBSET (ScriptNames \cup OutNames)
  /\ removes = <<>>
  /\ sh_calls = 0
  /\ tries = NoTries
  /\ found = FALSE

\* lines 866-867: the first Mkstemp is entered
WsCall ==
  /\ ws_pc = "call"
  /\ ws_pc' = "stat"
  /\ target' = "script"
  /\ attempt' = 0
  /\ UNCHANGED <<name, script, outfile, ws_exit_code, ws_result, files, removes,
                 sh_calls>>
  /\ UNCHANGED <<tries, found>>
  /\ UNCHANGED not_ws

\* Stat of a file: its mode when it exists and the call works, else None
StatModes(f) == IF f \in files THEN {None, Some(33188)} ELSE {None}

\* (mutant) a WrappedShell that goes on without its temporary file
AfterMkstempUnchecked(t, allocated) == IF t = "script" THEN "stat" ELSE "sh"

\* lines 868-869 and 872-873: if not script: return False, if not outfile:
\* return False (through the finally of line 881); else the next step
AfterMkstemp(t, allocated) ==
  IF IsNone(allocated)
    THEN (IF t = "script" THEN "done" ELSE "rm_script")
    ELSE (IF t = "script" THEN "stat" ELSE "sh")

\* Mkstemp returns to WrappedShell: a name, or None
MkstempReturns(allocated) ==
  /\ ws_pc' = AfterMkstemp(target, allocated)
  /\ script' = IF target = "script" THEN allocated ELSE script
  /\ outfile' = IF target = "outfile" THEN allocated ELSE outfile
  /\ target' = IF target = "script" /\ ws_pc' = "stat" THEN "outfile" ELSE target
  /\ attempt' = 0
  /\ name' = None
  /\ ws_result' = IF ws_pc' \in {"done", "rm_script"}
                    THEN ReturnedFalse ELSE ws_result

\* (mutant) a Mkstemp that writes whatever Stat said
AfterStatIgnored(mode) == "push"

\* lines 851-852: if mode: continue
AfterStat(mode) == IF IsNone(mode) \/ Val(mode) = 0 THEN "push" ELSE "stat"

\* line 853: what PushContent(content, name) returned
Pushed(n, ok) == [name |-> n, ok |-> ok]

\* lines 847-852: the loop is over after five names, else a name is drawn
\* and looked up; a name in use is skipped
MkstempStat ==
  /\ ws_pc = "stat"
  /\ IF attempt = MkstempAttempts
       THEN MkstempReturns(None) /\ UNCHANGED <<tries, found>>
       ELSE \E n \in NamesFor(target) : \E mode \in StatModes(n) :
              /\ ws_pc' = AfterStat(mode)
              /\ attempt' = IF ws_pc' = "push" THEN attempt ELSE attempt + 1
              /\ name' = Some(n)
              /\ found' = ~IsNone(mode)
              /\ tries' = [tries EXCEPT
                             ![target].stats = @ + 1,
                             ![target].bad =
                               IF ws_pc' = "push" THEN @ ELSE @ + 1]
              /\ UNCHANGED <<target, script, outfile, ws_result>>
  /\ UNCHANGED <<ws_exit_code, files, removes, sh_calls>>
  /\ UNCHANGED not_ws

\* lines 853-854: PushContent(content, name); the name is returned when it
\* worked, else the loop goes on (the file may have been created)
MkstempPush ==
  /\ ws_pc = "push"
  /\ \E pushed \in BOOLEAN, created \in BOOLEAN :
       /\ pushed => created
       /\ files' = IF created THEN files \cup {Val(name)} ELSE files
       /\ tries' = [tries EXCEPT
                      ![target].push = Pushed(Val(name), pushed),
                      ![target].bad = IF pushed THEN @ ELSE @ + 1]
       /\ found' = found
       /\ IF pushed
            THEN MkstempReturns(name)
            ELSE /\ ws_pc' = "stat"
                 /\ attempt' = attempt + 1
                 /\ UNCHANGED <<target, name, script, outfile, ws_result>>
  /\ UNCHANGED <<ws_exit_code, removes, sh_calls>>
  /\ UNCHANGED not_ws

\* line 875: _, exit_code = self.Shell('sh %s &> %s' % (script, outfile))
WsRun ==
  /\ ws_pc = "sh"
  /\ sh_calls' = sh_calls + 1
  /\ \E code \in {None, Some(0), Some(1)} : ws_exit_code' = code
  /\ ws_pc' = "pull"
  /\ UNCHANGED <<target, attempt, name, script, outfile, ws_result, files,
                 removes>>
  /\ UNCHANGED <<tries, found>>
  /\ UNCHANGED not_ws

\* (mutant) a cleanup that is only made after a script that worked
AfterPullUnlessFailed(out, code) ==
  IF IsNone(out) \/ code # Some(0) THEN "done" ELSE "rm_outfile"

\* lines 877-881: the return leaves through the two finally clauses
AfterPull(out, code) == "rm_outfile"

\* lines 876-877: out = self.PullContent(outfile); return out, exit_code
WsPull ==
  /\ ws_pc = "pull"
  /\ \E out \in {None, Some("out")} :
       /\ ws_result' = ReturnedTuple(out, ws_exit_code)
       /\ ws_pc' = AfterPull(out, ws_exit_code)
  /\ UNCHANGED <<target, attempt, name, script, outfile, ws_exit_code, files,
                 removes, sh_calls>>
  /\ UNCHANGED <<tries, found>>
  /\ UNCHANGED not_ws

\* self.Shell('rm %s' % f): the file is gone, or the call failed
Rm(f) ==
  /\ removes' = Append(removes, f)
  /\ \E removed \in BOOLEAN :
       files' = IF removed THEN files \ Range(f) ELSE files

\* lines 878-879: finally: self.Shell('rm %s' % outfile)
WsRmOutfile ==
  /\ ws_pc = "rm_outfile"
  /\ Rm(outfile)
  /\ ws_pc' = "rm_script"
  /\ UNCHANGED <<target, attempt, name, script, outfile, ws_exit_code, ws_result,
                 sh_calls>>
  /\ UNCHANGED <<tries, found>>
  /\ UNCHANGED not_ws

\* lines 880-881: finally: self.Shell('rm %s' % script), then the return
WsRmScript ==
  /\ ws_pc = "rm_script"
  /\ Rm(script)
  /\ ws_pc' = "done"
  /\ UNCHANGED <<target, attempt, name, script, outfile, ws_exit_code, ws_result,
                 sh_calls>>
  /\ UNCHANGED <<tries, found>>
  /\ UNCHANGED not_ws

NextWs ==
  \/ WsCall
  \/ MkstempStat
  \/ MkstempPush
  \/ WsRun
  \/ WsPull
  \/ WsRmOutfile
  \/ WsRmScript

(***************************************************************************)
(* _ParcelToList, lines 91-108: the decoder of the output of 'service      *)
(* call'.                                                                  *)
(***************************************************************************)
\* a line of the output: what precedes the four groups, and the groups,
\* each of two halves of four characters (group[0:4] and group[4:8])
Line(head, groups) == [head |-> head, groups |-> groups]

Blank == "    "

\* the character class [0-9a-f ] over the halves used here
HexOrBlank == {"0000", "0005", "0033", "0035", "006c", Blank}

\* the lines given: two records (one with blank halves), a line of text,
\* and a record in upper case, which the pattern does not accept
ParcelLines ==
  { Line("  0x00000000: ", << <<"0000", "0005">>, <<"0033", "0035">>,
                             <<"006c", "0000">>, <<"0005", "0033">> >>),
    Line("  0x00000010: ", << <<"0035", "006c">>, <<Blank, "0033">>,
                             <<Blank, Blank>>, <<Blank, Blank>> >>),
    Line("garbage", <<>>),
    Line("  0x00000020: ", << <<"00AB", "0005">>, <<"0033", "0035">>,
                             <<"006c", "0000">>, <<"0005", "0033">> >>) }

\* sequences of at most n elements of S
SeqUpTo(S, n) == UNION {[1..k -> S] : k \in 0..n}

\* lines 95-97: re.match of the record pattern
Match(line) ==
  /\ line.head \in {"  0x00000000: ", "  0x00000010: ", "  0x00000020: "}
  /\ Len(line.groups) = 4
  /\ \A i \in 1..4 : /\ line.groups[i][1] \in HexOrBlank
                     /\ line.groups[i][2] \in HexOrBlank

\* lines 102-107: of a group, the second half and then the first, blanks
\* left out
GroupChars(group) ==
  (IF group[2] # Blank THEN <<group[2]>> ELSE <<>>)
    \o (IF group[1] # Blank THEN <<group[1]>> ELSE <<>>)

\* lines 100-107: the characters of the four groups of a line
LineChars(line) ==
  GroupChars(line.groups[1]) \o GroupChars(line.groups[2])
    \o GroupChars(line.groups[3]) \o GroupChars(line.groups[4])

\* the function has not been called
ParcelIdle ==
  /\ lines = <<>>
  /\ taken = 0
  /\ parcel_out = <<>>
  /\ parcel_pc = "idle"

\* line 93: out = []
InitParcel ==
  /\ lines \in SeqUpTo(ParcelLines, MaxLines)
  /\ taken = 0
  /\ parcel_out = <<>>
  /\ parcel_pc = "loop"

\* (mutant) a loop that skips a line it cannot decode
OnMismatchSkip(i) == IF i = Len(lines) THEN "return" ELSE "loop"

\* lines 98-99: if not match: break
OnMismatch(i) == "return"

\* lines 94-107: one turn of the loop
ParcelLine ==
  /\ parcel_pc = "loop"
  /\ taken < Len(lines)
  /\ taken' = taken + 1
  /\ IF Match(lines[taken + 1])
       THEN /\ parcel_out' = parcel_out \o LineChars(lines[taken + 1])
            /\ parcel_pc' = "loop"
       ELSE /\ parcel_out' = parcel_out
            /\ parcel_pc' = OnMismatch(taken + 1)
  /\ UNCHANGED lines
  /\ UNCHANGED not_parcel

\* line 108, after the last line
ParcelReturn ==
  /\ parcel_pc = "loop"
  /\ taken = Len(lines)
  /\ parcel_pc' = "return"
  /\ UNCHANGED <<lines, taken, parcel_out>>
  /\ UNCHANGED not_parcel

NextParcel ==
  \/ ParcelLine
  \/ ParcelReturn

(***************************************************************************)
(* The lock of _PerDeviceCache (lines 57-84) with several threads: threads *)
(* that prime a device (_InitCache, lines 111-174), threads that trim, and *)
(* threads that poll a device (WaitForDevice, lines 741-760).              *)
(***************************************************************************)
Threads == {1, 2, 3}
LockPaths == {1, 2}

\* the port path of the device a thread works on
PathOf(t) == IF t = 2 THEN 2 ELSE 1

\* no thread runs
LockIdle ==
  /\ lock = 0
  /\ entries = {}
  /\ th_role = [t \in Threads |-> "none"]
  /\ th_pc = [t \in Threads |-> "done"]
  /\ th_left = [t \in Threads |-> 0]
  /\ th_ok = [t \in Threads |-> TRUE]
  /\ th_keys = [t \in Threads |-> {}]
  /\ th_device_keys = [t \in Threads |-> {}]

\* where a thread starts
StartOf(role) ==
  CASE role = "prime" -> "get"
    [] role = "trim" -> "trim"
    [] role = "poll" -> "stat"

InitLock ==
  /\ lock = 0
  /\ entries \in SUBSET LockPaths
  /\ th_role \in [Threads -> {"prime", "trim", "poll"}]
  /\ th_pc = [t \in Threads |-> StartOf(th_role[t])]
  /\ th_left = [t \in Threads |->
                  IF th_role[t] = "prime" THEN MaxQueries
                  ELSE IF th_role[t] = "poll" THEN MaxPolls ELSE 0]
  /\ th_ok = [t \in Threads |-> TRUE]
  /\ th_keys = [t \in Threads |-> {}]
  /\ th_device_keys = [t \in Threads |-> {}]

\* with self._lock: on entry
Acquire(t) == lock = 0 /\ lock' = t

\* (mutant) a get that leaves with the lock held
HeldAfterGet(t) == t

\* line 66-67: the with block of get is left with the return
ReleasedAfterGet(t) == 0

\* line 66: get enters its with block
GetAcquire(t) ==
  /\ th_pc[t] = "get"
  /\ Acquire(t)
  /\ th_pc' = [th_pc EXCEPT ![t] = "get_locked"]
  /\ UNCHANGED <<entries, th_role, th_left, th_ok, th_keys, th_device_keys>>
  /\ UNCHANGED not_lock

\* lines 67 and 119-120: the entry is returned; _InitCache queries the
\* device when there is none
GetLocked(t) ==
  /\ th_pc[t] = "get_locked"
  /\ lock' = ReleasedAfterGet(t)
  /\ th_pc' = [th_pc EXCEPT ![t] =
                 IF PathOf(t) \in entries THEN "done" ELSE "query"]
  /\ UNCHANGED <<entries, th_role, th_left, th_ok, th_keys, th_device_keys>>
  /\ UNCHANGED not_lock

\* lines 122-162: a Shell, PullContent or Stat call of _InitCache, which
\* works or not; after the last one the cache is saved if all worked
Query(t) ==
  /\ th_pc[t] = "query"
  /\ \E worked \in BOOLEAN :
       /\ th_ok' = [th_ok EXCEPT ![t] = th_ok[t] /\ worked]
       /\ th_left' = [th_left EXCEPT ![t] = th_left[t] - 1]
       /\ th_pc' = [th_pc EXCEPT ![t] =
                      IF th_left[t] > 1 THEN "query"
                      ELSE IF th_ok'[t] THEN "set" ELSE "done"]
  /\ UNCHANGED <<lock, entries, th_role, th_keys, th_device_keys>>
  /\ UNCHANGED not_lock

\* line 70: set enters its with block
SetAcquire(t) ==
  /\ th_pc[t] = "set"
  /\ Acquire(t)
  /\ th_pc' = [th_pc EXCEPT ![t] = "set_locked"]
  /\ UNCHANGED <<entries, th_role, th_left, th_ok, th_keys, th_device_keys>>
  /\ UNCHANGED not_lock

\* line 71: the entry is stored and the with block left
SetLocked(t) ==
  /\ th_pc[t] = "set_locked"
  /\ entries' = entries \cup {PathOf(t)}
  /\ lock' = 0
  /\ th_pc' = [th_pc EXCEPT ![t] = "done"]
  /\ UNCHANGED <<th_role, th_left, th_ok, th_keys, th_device_keys>>
  /\ UNCHANGED not_lock

\* lines 79-81: device_keys is built from a list of devices, then trim
\* enters its with block and takes the list of the keys
TrimAcquire(t) ==
  /\ th_pc[t] = "trim"
  /\ Acquire(t)
  /\ \E listed \in SUBSET LockPaths :
       th_device_keys' = [th_device_keys EXCEPT ![t] = listed]
  /\ th_keys' = [th_keys EXCEPT ![t] = entries]
  /\ th_pc' = [th_pc EXCEPT ![t] = "trim_locked"]
  /\ UNCHANGED <<entries, th_role, th_left, th_ok>>
  /\ UNCHANGED not_lock

\* lines 81-84: one key of the loop, whose device is looked up and asked
\* whether it is valid, or the end of the with block
TrimLocked(t) ==
  /\ th_pc[t] = "trim_locked"
  /\ IF th_keys[t] = {}
       THEN /\ lock' = 0
            /\ th_pc' = [th_pc EXCEPT ![t] = "done"]
            /\ UNCHANGED <<entries, th_keys>>
       ELSE \E key \in th_keys[t], is_valid \in BOOLEAN :
              /\ entries' = IF key \in th_device_keys[t] /\ is_valid
                              THEN entries ELSE entries \ {key}
              /\ th_keys' = [th_keys EXCEPT ![t] = th_keys[t] \ {key}]
              /\ UNCHANGED <<lock, th_pc>>
  /\ UNCHANGED <<th_role, th_left, th_ok, th_device_keys>>
  /\ UNCHANGED not_lock

\* lines 754-757: a Stat of the polling loop, which ends the loop when it
\* works or when the time is up
PollStat(t) ==
  /\ th_pc[t] = "stat"
  /\ \E worked \in BOOLEAN :
       th_pc' = [th_pc EXCEPT ![t] =
                   IF worked \/ th_left[t] = 0 THEN "done" ELSE "sleep"]
  /\ UNCHANGED <<lock, entries, th_role, th_left, th_ok, th_keys, th_device_keys>>
  /\ UNCHANGED not_lock

\* line 758: time.sleep(0.1)
PollSleep(t) ==
  /\ th_pc[t] = "sleep"
  /\ th_left' = [th_left EXCEPT ![t] = th_left[t] - 1]
  /\ th_pc' = [th_pc EXCEPT ![t] = "stat"]
  /\ UNCHANGED <<lock, entries, th_role, th_ok, th_keys, th_device_keys>>
  /\ UNCHANGED not_lock

NextLock ==
  \/ \E t \in Threads : GetAcquire(t)
  \/ \E t \in Threads : GetLocked(t)
  \/ \E t \in Threads : Query(t)
  \/ \E t \in Threads : SetAcquire(t)
  \/ \E t \in Threads : SetLocked(t)
  \/ \E t \in Threads : TrimAcquire(t)
  \/ \E t \in Threads : TrimLocked(t)
  \/ \E t \in Threads : PollStat(t)
  \/ \E t \in Threads : PollSleep(t)

\* no fleet connect has been made
FleetIdle == InitFleet /\ is_root = [d \in Dev |-> FALSE]

(***************************************************************************)
(* The specifications: of the cache and the fleet connect, of              *)
(* WaitUntilFullyBooted, of the CPU control, of WrappedShell and of        *)
(* _ParcelToList.                                                          *)
(***************************************************************************)
Init == InitFleet /\ BootIdle /\ CpuIdle /\ WsIdle /\ ParcelIdle /\ LockIdle

Next == NextFleet

Spec == Init /\ [][Next]_vars

InitOfBoot ==
  FleetIdle /\ InitBoot /\ CpuIdle /\ WsIdle /\ ParcelIdle /\ LockIdle

SpecBoot == InitOfBoot /\ [][NextBoot]_vars

\* every device call and every sleep returns: the thread of the operation
\* takes its next step; a sleep lets time pass
SpecBootLive == InitOfBoot /\ [][NextBoot]_vars /\ WF_vars(BootStep)

InitOfCpu ==
  FleetIdle /\ BootIdle /\ InitCpu /\ WsIdle /\ ParcelIdle /\ LockIdle

SpecCpu == InitOfCpu /\ [][NextCpu]_vars

\* every device call returns: the thread of the call takes its next step
SpecCpuLive == InitOfCpu /\ [][NextCpu]_vars /\ WF_vars(NextCpu)

InitOfWs ==
  FleetIdle /\ BootIdle /\ CpuIdle /\ InitWs /\ ParcelIdle /\ LockIdle

SpecWs == InitOfWs /\ [][NextWs]_vars

InitOfParcel ==
  FleetIdle /\ BootIdle /\ CpuIdle /\ WsIdle /\ InitParcel /\ LockIdle

SpecParcel == InitOfParcel /\ [][NextParcel]_vars

InitOfLock ==
  FleetIdle /\ BootIdle /\ CpuIdle /\ WsIdle /\ ParcelIdle /\ InitLock

SpecLock == InitOfLock /\ [][NextLock]_vars

(***************************************************************************)
(* Properties of the cache and of the fleet connect.                       *)
(***************************************************************************)
\* the identities of the list with a device whose is_valid is true
ValidIdentities(ds) ==
  {port_path[ds[i]] : i \in {j \in 1..Len(ds) : session[ds[j]] = "valid"}}

\* C1: after trim(devices) the store is the store before the call restricted
\* to the identities that are in devices with a valid device: the other
\* entries are removed, the kept ones are unchanged, and an empty list
\* empties the store
C1_TrimRestricts ==
  phase = "returned" =>
    /\ DOMAIN per_device = DOMAIN pre_trim \cap ValidIdentities(devices)
    /\ \A p \in DOMAIN per_device : get(per_device, p) = get(pre_trim, p)
    /\ (devices = <<>> => per_device = EmptyStore)

\* a trim that removed the entry of an invalid device and the entry of a
\* device missing from the list... and kept an entry
C1_Witness ==
  /\ phase = "returned"
  /\ \E p \in DOMAIN pre_trim : p \in DOMAIN per_device
  /\ \E p \in DOMAIN pre_trim :
       /\ p \notin DOMAIN per_device
       /\ \E i \in 1..Len(devices) : port_path[devices[i]] = p

\* C2 (as claimed): the entry of a device that stays connected and valid at
\* its port path is never evicted
C2_LiveEntryNeverEvicted ==
  [][\A d \in Dev :
       (/\ session[d] = "valid"
        /\ session'[d] = "valid"
        /\ port_path'[d] = port_path[d]
        /\ port_path[d] \in DOMAIN per_device)
       => port_path[d] \in DOMAIN per_device']_vars

TaskStep(d) == Connect(d) \/ Prime(d) \/ Elevate(d)

C4_TrimOnceAfterAllTasks ==
  /\ phase = "running" => trims = 0
  /\ phase = "returned" =>
       /\ trims = 1
       /\ \A d \in handles : pc[d] \in {"done", "raised"}
       /\ DOMAIN per_device \subseteq ValidIdentities(devices)
       /\ \A d \in connect_failed : port_path[d] \notin DOMAIN per_device

\* a fleet connect whose trim purged the entry of a device that failed to
\* connect
C4_Witness ==
  /\ phase = "returned"
  /\ trims = 1
  /\ \E d \in connect_failed :
       /\ port_path[d] \in DOMAIN pre_trim
       /\ port_path[d] \notin DOMAIN per_device

\* C5 (as claimed): every stored DeviceCache has no field that is None and
\* was built with every retrieval successful
C5_OnlyFullyRetrieved ==
  \A p \in DOMAIN per_device :
    AllNotNone(per_device[p]) /\ p \notin degraded

\* C6: Root() is called for a device exactly when as_root was asked, the
\* cache says su is there and the device is not root already
C6_RootIffWanted ==
  \A d \in Dev :
    /\ root_called[d] =>
         /\ pc[d] = "done"
         /\ as_root /\ cache[d].has_su /\ ~was_root[d]
    /\ pc[d] = "done" =>
         (root_called[d] <=> (as_root /\ cache[d].has_su /\ ~was_root[d]))

\* a task that called Root(), beside one that did not because the device was
\* root already
C6_Witness ==
  \E d, e \in Dev :
    /\ pc[d] = "done" /\ root_called[d]
    /\ pc[e] = "done" /\ ~root_called[e]
    /\ as_root /\ cache[e].has_su /\ was_root[e]


(***************************************************************************)
(* Properties of WaitUntilFullyBooted.                                     *)
(***************************************************************************)
\* C7: as long as the Stat of the external storage path has not succeeded,
\* no getprop and no 'pm path' call is issued, and the operation can only
\* end by returning False
C7_NoPhaseBWithoutStat ==
  ~stat_ok =>
    /\ "getprop" \notin issued
    /\ "pm" \notin issued
    /\ boot_pc \in {"call", "A_start", "A_check", "A_stat", "A_sleep", "done"}
    /\ boot_pc = "done" => boot_result = "False"

\* WaitForDevice polled Stat in vain until its deadline passed
C7_Witness ==
  /\ boot_pc = "done"
  /\ ~stat_ok
  /\ "stat" \in issued
  /\ now - wait_start > timeout
  /\ boot_result = "False"

\* C8 (as claimed): an answer of 'pm path' outside the two sentinels makes
\* the operation return a failure that is not the failure of a timeout
C8_UnexpectedAnswerReturnsFailure ==
  pm_unexpected => boot_pc = "done" /\ boot_result = "ProtocolFailure"

\* C9: the checks of the boot animation phase and of the package manager
\* phase measure from the start of the operation: a check made when more
\* than timeout has passed since then ends the operation with False, also
\* the first check of a phase just entered, and a check made before lets
\* the phase poll
C9_OneDeadline ==
  [][/\ (boot_pc \in {"B_check", "C_check"} /\ boot_pc' # boot_pc
           /\ now - start > timeout)
          => (boot_pc' = "done" /\ boot_result' = "False")
     /\ (boot_pc \in {"B_check", "C_check"} /\ boot_pc' # boot_pc
           /\ now - start <= timeout)
          => boot_pc' \in {"B_getprop", "C_pm"}]_vars

\* the package manager phase was entered within its own timeout but after
\* the budget of the operation was spent, and failed at its first check
C9_Witness ==
  /\ boot_pc = "done"
  /\ boot_result = "False"
  /\ boot_phase = "C"
  /\ "pm" \notin issued
  /\ phase_start > start
  /\ now - phase_start <= timeout

\* C10: on a device whose governor list is not empty and lacks powersave,
\* SetCPUScalingGovernor('powersave') calls SetCPUSpeed with the minimum
\* supported frequency and returns the result of that call, and it never
\* writes 'powersave' to the governor control file.
C10_PowersaveDelegates ==
  (/\ cpu_call = [fn |-> "SetCPUScalingGovernor", arg |-> "powersave"]
   /\ cpu_status \in {"done", "raised"}
   /\ ~FalsyList(cpu_cache.available_governors)
   /\ "powersave" \notin Range(Val(cpu_cache.available_governors)))
  => /\ cpu_status = "done"
     /\ nested # <<>>
     /\ nested[1].fn = "SetCPUSpeed"
     /\ \A f \in Range(Val(cpu_cache.available_frequencies)) :
          nested[1].arg <= f
     /\ speed_result = (IF ret THEN "True" ELSE "False")
     /\ \A i \in 1..Len(writes) :
          writes[i].file = GovFile => writes[i].value # "powersave"

C12_SubstituteOrRefuse ==
  LET x == cpu_call.arg
      governors == cpu_cache.available_governors
      Set(g) ==
        /\ cpu_status \in {"call", "running", "done"}
        /\ nested = <<>>
        /\ \A i \in 1..Len(writes) :
             writes[i].file = GovFile /\ writes[i].value = g
        /\ (cpu_status = "running" /\ Top.at # "entry") => Top.governor = g
        /\ (cpu_status = "done" /\ ret) => scaling_governor = g
        /\ cpu_status = "done" => pulls # <<>>
  IN  (/\ cpu_call.fn = "SetCPUScalingGovernor"
       /\ ~FalsyList(governors)
       /\ x \notin Range(Val(governors)))
      => /\ x = "ondemand" => Set("interactive")
         /\ x = "interactive" => Set("ondemand")
         /\ x \notin {"ondemand", "interactive", "powersave"}
              => /\ cpu_status \in {"call", "running", "done"}
                 /\ cpu_status = "running" => Top.at = "entry"
                 /\ cpu_status = "done" => ~ret
                 /\ pulls = <<>>
                 /\ writes = <<>>
                 /\ nested = <<>>

\* ondemand was asked of a device without it: interactive was written and
\* read back
C12_Witness ==
  /\ cpu_call = [fn |-> "SetCPUScalingGovernor", arg |-> "ondemand"]
  /\ "ondemand" \notin Range(Val(cpu_cache.available_governors))
  /\ cpu_status = "done"
  /\ ret
  /\ writes # <<>>
  /\ scaling_governor = "interactive"

\* what the last PullContent returned, and the last write attempted
LastPull == pulls[Len(pulls)]
LastWrite == writes[Len(writes)]

\* C13: a call of SetCPUScalingGovernor that wrote returns True only when
\* the readback gave the target: the push is tried first and the shell
\* write only after a push that failed; when both fail the call returns
\* False; otherwise the call reads the control file back and returns True
\* when the content read is the target, and False when nothing was read or
\* something else.
C13_SuccessOnlyIfReadBack ==
  [][/\ (Running("SetCPUScalingGovernor", "push") /\ stack' # stack)
          => /\ Len(stack') = Len(stack)
             /\ stack'[1].at = (IF LastWrite'.ok THEN "readback" ELSE "shell")
             /\ LastWrite'.by = "push"
     /\ (Running("SetCPUScalingGovernor", "shell") /\ stack' # stack)
          => /\ LastWrite.by = "push" /\ ~LastWrite.ok
             /\ LastWrite'.by = "shell"
             /\ LastWrite'.value = LastWrite.value
             /\ IF LastWrite'.ok
                  THEN Len(stack') = Len(stack) /\ stack'[1].at = "readback"
                  ELSE stack' = Tail(stack) /\ ~ret'
     /\ (Running("SetCPUScalingGovernor", "readback") /\ stack' # stack)
          => /\ stack' = Tail(stack)
             /\ Len(pulls') = Len(pulls) + 1
             /\ LastPull'.file = GovFile
             /\ LastWrite.ok /\ LastWrite.value = Top.governor
             /\ ret' = (LastPull'.got = <<[text |-> Top.governor, eol |-> "\n"]>>)
             /\ ret' => scaling_governor' = Top.governor]_vars

\* a write that the device reported done and did not take: the readback
\* gave the old governor and the call returned False
C13_Witness ==
  /\ cpu_call.fn = "SetCPUScalingGovernor"
  /\ cpu_status = "done"
  /\ ~ret
  /\ nested = <<>>
  /\ writes # <<>>
  /\ LastWrite.ok
  /\ LastPull.got # None
  /\ scaling_governor # LastWrite.value

\* C14: SetCPUSpeed with a speed in [10000, 10000000] that is not in the
\* frequency list of the device returns False, and no write is attempted,
\* neither of the governor nor of the speed.
C14_UnlistedSpeedReturnsFailure ==
  LET speed == cpu_call.arg
      frequencies == cpu_cache.available_frequencies
  IN  (/\ cpu_call.fn = "SetCPUSpeed"
       /\ 10000 <= speed /\ speed <= 10000000
       /\ (FalsyList(frequencies) \/ speed \notin Range(Val(frequencies))))
      => /\ writes = <<>>
         /\ cpu_status \in {"call", "running", "done"}
         /\ cpu_status = "done" => ~ret

\* C15: SetCPUSpeed calls SetCPUScalingGovernor('userspace') before it
\* writes the speed control file, which no other step writes; it returns
\* False when that write fails, and otherwise pulls the file and returns
\* True only when the switch of the governor returned True (the control
\* file of the governor then holds userspace) and the content pulled is the
\* speed asked for.
C15_UserspaceThenSpeed ==
  [][/\ (writes' # writes /\ LastWrite'.file = SpeedFile)
          => Running("SetCPUSpeed", "push")
     /\ (Running("SetCPUSpeed", "push") /\ stack' # stack)
          => /\ nested # <<>>
             /\ nested[Len(nested)] =
                  [fn |-> "SetCPUScalingGovernor", arg |-> "userspace"]
             /\ ret => scaling_governor = "userspace"
             /\ Len(writes') = Len(writes) + 1
             /\ LastWrite'.file = SpeedFile /\ LastWrite'.value = Top.speed
             /\ IF LastWrite'.ok
                  THEN /\ Len(stack') = Len(stack)
                       /\ stack'[1].at = "readback"
                       /\ stack'[1].success = ret
                  ELSE stack' = Tail(stack) /\ ~ret'
     /\ (Running("SetCPUSpeed", "readback") /\ stack' # stack)
          => /\ stack' = Tail(stack)
             /\ LastPull'.file = SpeedFile
             /\ ret' = (/\ Top.success
                        /\ LastPull'.got = <<[text |-> Top.speed, eol |-> "\n"]>>)]_vars

\* the speed was written and read back, the switch to userspace had
\* failed, and SetCPUSpeed returned False
C15_Witness ==
  /\ cpu_call.fn = "SetCPUSpeed"
  /\ cpu_status = "done"
  /\ ~ret
  /\ scaling_setspeed = cpu_call.arg
  /\ scaling_governor # "userspace"
  /\ pulls # <<>>
  /\ LastPull.file = SpeedFile
  /\ LastPull.got = <<[text |-> cpu_call.arg, eol |-> "\n"]>>

\* C16: an operation whose field of the cache is absent returns False at
\* once, with no Stat, no PullContent, no write, no shell call and no sleep:
\* SetCPUScalingGovernor without a governor list, SetCPUSpeed (for a speed
\* it accepts) and the powersave fallback without a frequency list,
\* WaitUntilFullyBooted without an external storage path.
C16_AbsentFieldFailsFast ==
  /\ (/\ cpu_call.fn \in {"SetCPUScalingGovernor", "SetCPUSpeed"}
      /\ \/ /\ cpu_call.fn = "SetCPUScalingGovernor"
            /\ FalsyList(cpu_cache.available_governors)
         \/ /\ cpu_call.fn = "SetCPUSpeed"
            /\ 10000 <= cpu_call.arg /\ cpu_call.arg <= 10000000
            /\ FalsyList(cpu_cache.available_frequencies)
         \/ /\ cpu_call.fn = "SetCPUScalingGovernor"
            /\ cpu_call.arg = "powersave"
            /\ ~FalsyList(cpu_cache.available_governors)
            /\ "powersave" \notin Range(Val(cpu_cache.available_governors))
            /\ FalsyList(cpu_cache.available_frequencies))
     => /\ cpu_status \in {"call", "running", "done"}
        /\ cpu_status = "done" => ~ret
        /\ pulls = <<>>
        /\ writes = <<>>
  /\ (boot_pc # "idle" /\ FalsyStr(boot_cache.external_storage_path))
     => /\ boot_pc \in {"call", "done"}
        /\ boot_pc = "done" => boot_result = "False"
        /\ issued = {}
        /\ now = 0

\* C17: once the script file and the output file are allocated,
\* WrappedShell issues two rm calls before it returns, the first for the
\* output file and the second for the script file, and none before the
\* output was pulled, whatever the exit code of the script, the result of
\* the pull and the result of the first rm.
C17_TwoRemoves ==
  (~IsNone(script) /\ ~IsNone(outfile))
    => /\ ws_pc \in {"sh", "pull"} => removes = <<>>
       /\ ws_pc = "rm_outfile" => removes = <<>> /\ sh_calls = 1
       /\ ws_pc = "rm_script" => removes = <<outfile>>
       /\ ws_pc = "done" => removes = <<outfile, script>>
       /\ ws_pc \in {"sh", "pull", "rm_outfile", "rm_script", "done"}

\* the script exited with 1, its output could not be pulled, the rm of the
\* output file failed, and the rm of the script file was issued all the same
C17_Witness ==
  /\ ws_pc = "done"
  /\ ~IsNone(script) /\ ~IsNone(outfile)
  /\ ws_result = ReturnedTuple(None, Some(1))
  /\ Val(outfile) \in files
  /\ removes = <<outfile, script>>

\* C18: when Mkstemp gives no script file or no output file, WrappedShell
\* returns False and no 'sh' call is issued.
C18_NoRunWithoutFiles ==
  (IsNone(script) \/ IsNone(outfile))
    => /\ sh_calls = 0
       /\ ws_pc = "done" => ws_result = ReturnedFalse
       /\ ws_pc \in {"idle", "call", "stat", "push", "rm_script", "done"}

\* the script file was allocated and the five attempts for the output file
\* failed: False, and the script file removed
C18_Witness ==
  /\ ws_pc = "done"
  /\ ~IsNone(script)
  /\ IsNone(outfile)
  /\ ws_result = ReturnedFalse
  /\ sh_calls = 0
  /\ removes = <<script>>

\* the number of lines before the first one that is not a record
RECURSIVE RecordPrefix(_)
RecordPrefix(ls) ==
  IF ls = <<>> \/ ~Match(Head(ls)) THEN 0 ELSE 1 + RecordPrefix(Tail(ls))

\* the characters of the first n lines
RECURSIVE CharsOf(_, _)
CharsOf(ls, n) ==
  IF n = 0 THEN <<>> ELSE CharsOf(ls, n - 1) \o LineChars(ls[n])

\* C19: _ParcelToList returns the characters of the longest prefix of lines
\* that all match the record pattern; no line after the first that does not
\* match adds anything, whether it matches or not.
C19_DecodesLongestPrefix ==
  parcel_pc = "return" => parcel_out = CharsOf(lines, RecordPrefix(lines))

\* [valid, valid, garbage, valid]: the first two lines are decoded
C19_Witness ==
  /\ parcel_pc = "return"
  /\ Len(lines) = 4
  /\ Match(lines[1]) /\ Match(lines[2]) /\ ~Match(lines[3]) /\ Match(lines[4])
  /\ parcel_out = LineChars(lines[1]) \o LineChars(lines[2])
  /\ Len(parcel_out) < Len(LineChars(lines[1]) \o LineChars(lines[2])
                             \o LineChars(lines[4]))

\* C20: a governor name read from the device that is outside the known set
\* makes nothing raise: no priming task of a fleet connect ends with an
\* exception (in _InitCache only the check of the governor names can
\* raise), and SetCPUScalingGovernor and SetCPUSpeed never raise once they
\* have read a control file.
C20_UnknownGovernorNotAsserted ==
  /\ \A d \in Dev : pc[d] # "raised"
  /\ cpu_status = "raised" => pulls = <<>>


\* the places where a thread is inside a with block of the store
LockedPcs == {"get_locked", "set_locked", "trim_locked"}

\* the places where a thread is about to call the device or to sleep
DevicePcs == {"query", "stat", "sleep"}

\* C21: whatever the threads prime, trim and poll, a thread that is about to
\* call the device or to sleep does not hold the lock of the store, and the
\* lock is held only inside get, set and trim
C21_NoDeviceCallUnderLock ==
  \A t \in Threads :
    /\ th_pc[t] \in DevicePcs => lock # t
    /\ lock = t => th_pc[t] \in LockedPcs

\* a thread queries the device after its get missed, another thread polls,
\* and a third one holds the lock inside trim
C21_Witness ==
  \E t, u, v \in Threads :
    /\ th_pc[t] = "query" /\ th_left[t] < MaxQueries
    /\ th_pc[u] = "sleep"
    /\ th_pc[v] = "trim_locked" /\ lock = v

\* the operation has ended: it returned or it raised
BootEnded == boot_pc \in {"done", "raised"}

\* a loop whose own time is up leaves at its next check
ExitsAtCheck ==
  /\ boot_pc = "A_check" /\ now - wait_start > timeout /\ boot_pc' # boot_pc
       => boot_pc' = "done" /\ boot_result' = "False"
  /\ boot_pc \in {"B_check", "C_check"} /\ now - phase_start > timeout
       /\ boot_pc' # boot_pc
       => boot_pc' = "done" /\ boot_result' = "False"

\* C22: when every device call and every sleep returns, WaitUntilFullyBooted
\* ends whatever the device answers, and each of its three loops is left at
\* the first check made after more than the timeout has passed since the
\* loop started
C22_WaitUntilFullyBootedEnds == <>BootEnded /\ [][ExitsAtCheck]_vars

\* the package manager answered 'not running' until the time was up
C22_Witness ==
  /\ boot_pc = "done" /\ boot_result = "False"
  /\ boot_phase = "C" /\ "pm" \in issued
  /\ now - phase_start > timeout

\* _InitCache of handle d ends its lookup in this step
LooksUp(d) == pc[d] = "connect" /\ pc'[d] # "connect"

\* C23: an _InitCache whose lookup finds an entry for the port path of its
\* device makes no device call, leaves the store as it is and returns the
\* entry found
C23_HitReturnsTheEntry ==
  [][\A d \in Dev :
       LooksUp(d) /\ port_path[d] \in DOMAIN per_device
         => /\ pc'[d] # "prime"
            /\ queried' = queried
            /\ per_device' = per_device
            /\ cache'[d] = per_device[port_path[d]]]_vars

\* a second fleet connect found the entry the first one stored: the device
\* was not queried and the session holds the entry
C23_Witness ==
  \E d \in Dev :
    /\ cycles = 2 /\ pc[d] = "elevate" /\ d \notin queried
    /\ port_path[d] \in DOMAIN per_device
    /\ cache[d] = per_device[port_path[d]]

\* the Mkstemp for file t ("script" or "outfile") has returned
MkstempReturned(t) ==
  IF t = "script"
    THEN /\ ws_pc \notin {"idle", "call"}
         /\ ~(target = "script" /\ ws_pc \in {"stat", "push"})
    ELSE target = "outfile" /\ ws_pc \notin {"stat", "push"}

\* what the Mkstemp for file t returned
Allocated(t) == IF t = "script" THEN script ELSE outfile

\* C24: Mkstemp looks up at most 5 names; it pushes only to a name for which
\* Stat reported no file; the name it returns is the one of its last push,
\* which succeeded; and it returns None after 5 attempts that each found a
\* file or failed to write
C24_MkstempAttempts ==
  /\ ws_pc = "push" => ~found /\ ~IsNone(name)
  /\ \A t \in {"script", "outfile"} :
       /\ tries[t].stats <= MkstempAttempts
       /\ MkstempReturned(t) =>
            IF IsNone(Allocated(t))
              THEN /\ tries[t].stats = MkstempAttempts
                   /\ tries[t].bad = MkstempAttempts
                   /\ ~tries[t].push.ok
              ELSE /\ tries[t].push.ok
                   /\ tries[t].push.name = Val(Allocated(t))
                   /\ tries[t].bad = tries[t].stats - 1

\* the script file was allocated at the third attempt, and the Mkstemp for
\* the output file gave up after five, one of them a failed push
C24_Witness ==
  /\ MkstempReturned("outfile")
  /\ ~IsNone(script) /\ tries["script"].stats = 3
  /\ IsNone(outfile) /\ tries["outfile"].bad = MkstempAttempts
  /\ tries["outfile"].push # NoPush

\* C25: every governor SetCPUScalingGovernor writes to the governor control
\* file, by push or by shell, is in the governor list of the device, the
\* stand-in of ondemand or interactive included
C25_WritesOnlySupported ==
  \A i \in 1..Len(writes) :
    writes[i].file = GovFile
      => /\ ~FalsyList(cpu_cache.available_governors)
         /\ writes[i].value \in Range(Val(cpu_cache.available_governors))

\* the call of the user has ended: it returned or it raised
CpuEnded == cpu_status \in {"done", "raised"}

\* the nested calls of one kind made so far
NestedCalls(fn) == {i \in 1..Len(nested) : nested[i].fn = fn}

\* at most one nested SetCPUSpeed and one nested SetCPUScalingGovernor,
\* which is for userspace and makes no call itself
NestedOnce ==
  /\ Len(stack) <= 3
  /\ Cardinality(NestedCalls("SetCPUSpeed")) <= 1
  /\ Cardinality(NestedCalls("SetCPUScalingGovernor")) <= 1
  /\ \A i \in NestedCalls("SetCPUScalingGovernor") :
       nested[i].arg = "userspace" /\ i = Len(nested)

\* C26: every call of SetCPUScalingGovernor or SetCPUSpeed ends, for every
\* governor, speed and cached lists, having made at most one nested
\* SetCPUSpeed call and at most one nested SetCPUScalingGovernor('userspace')
\* call, after which no SetCPUSpeed is called
C26_DelegationEnds == <>CpuEnded /\ []NestedOnce

\* powersave was asked of a device without it: SetCPUSpeed was called with
\* the lowest frequency, it called SetCPUScalingGovernor('userspace'), and
\* the call of the user returned
C26_Witness ==
  /\ cpu_call = [fn |-> "SetCPUScalingGovernor", arg |-> "powersave"]
  /\ cpu_status = "done"
  /\ Len(nested) = 2
  /\ nested[1].fn = "SetCPUSpeed"
  /\ nested[2] = [fn |-> "SetCPUScalingGovernor", arg |-> "userspace"]
====
